---- MODULE Spec2Model ----
(***************************************************************************)
(* dataprep/connector/throttler.py: one Throttler (sliding-window rate     *)
(* limiter with exponential backoff) shared by OrderedThrottleSession      *)
(* objects, driven by asyncio tasks that run                               *)
(*     async with session.acquire(i) as cancel: <body>                     *)
(* Coroutine code between two awaits is one atomic step: the only await    *)
(* inside acquire is asyncio.sleep, and the body of the scope is the       *)
(* caller's.  Time is counted in ticks of 0.05 s.                          *)
(***************************************************************************)
EXTENDS Integers, Sequences, FiniteSets, TLC

\* ---- bounds of the model
NTasks == 3          \* caller tasks, each entering acquire once
MaxCap == 3          \* largest configured req_per_window
MaxBackoff == 2      \* backoff() calls per run
MaxTime == 1         \* ticks the clock runs on after one full window
MaxWindow == 1       \* largest configured window, in ticks
MaxCancelCalls == 2  \* calls of cancel() per run, over all tokens
MaxFinishCalls == 1  \* direct calls of Throttler.finish per run
NKeys == 2           \* keys a dict of the schema may hold
MaxObjects == 3      \* DefBase objects per run, constructed or merged
MaxConstructed == 2  \* of which constructed from values

\* window: float = 1.0 (the default), in ticks of 0.05 s
DefaultWindow == 20

Tasks == 1..NTasks
Sessions == {"s1", "s2"}
SeqNums == 0..(NTasks - 1)

VARIABLES
    _req_per_window,   \* Throttler._req_per_window
    _window,           \* Throttler._window
    _backoff_n,        \* Throttler._backoff_n
    _task_logs,        \* Throttler._task_logs: Deque[float], oldest first
    _running_tasks,    \* Throttler._running_tasks: Set[UUID]
    seqs,              \* OrderedThrottleSession.seqs, per session
    now,               \* time.time()
    pc,                \* per task: where its async-with stands
    sess,              \* per task: the session it acquires on
    seq,               \* per task: the argument i of acquire(i)
    cancelled,         \* per task: the closure variable `cancelled`
    ncancel,           \* per task: calls of its cancel() so far
    keyerr,            \* per task: its cancel() raised KeyError
    nbackoff,          \* history: calls of backoff() so far
    hist,              \* history, per session: admissions and withdrawals
    nfinish,           \* history: direct calls of Throttler.finish so far
    nfinerr,           \* history: how many of them raised KeyError
    policy,            \* schema: the Field of the attributes of the class
    objs,              \* schema: the DefBase objects, by identity
    dicts,             \* schema: the dict objects, by identity
    ret,               \* schema: the outcome of the last DefBase.merge
    mv                 \* schema: the last merge_values call on scalars

vars == <<_req_per_window, _window, _backoff_n, _task_logs, _running_tasks,
          seqs, now, pc, sess, seq, cancelled, ncancel, keyerr, nbackoff, hist,
          nfinish, nfinerr, policy, objs, dicts, ret, mv>>

finVars == <<nfinish, nfinerr>>

schemaVars == <<policy, objs, dicts, ret, mv>>

throttlerVars ==
    <<_req_per_window, _window, _backoff_n, _task_logs, _running_tasks,
      seqs, now, pc, sess, seq, cancelled, ncancel, keyerr, nbackoff, hist,
      nfinish, nfinerr>>

thrVars == <<_req_per_window, _window, _backoff_n, _task_logs, _running_tasks>>

\* ---- helpers
RECURSIVE Sum(_, _)
Sum(f, S) == IF S = {} THEN 0 ELSE LET x == CHOOSE y \in S : TRUE
                                   IN  f[x] + Sum(f, S \ {x})
Max(S) == CHOOSE x \in S : \A y \in S : y <= x
Min(S) == CHOOSE x \in S : \A y \in S : x <= y
Maximum(a, b) == IF a >= b THEN a ELSE b

\* ---- Throttler
\* (mutation of flush: >= in place of >, an entry as old as the window goes)
RECURSIVE flushAtWindow(_, _, _)
flushAtWindow(logs, t, w) ==
    IF logs # <<>> /\ t - Head(logs) >= w
    THEN flushAtWindow(Tail(logs), t, w)
    ELSE logs

\* the loop of Throttler.flush: popleft while the oldest entry is out of the window
RECURSIVE flush(_, _, _)
flush(logs, t, w) ==
    IF logs # <<>> /\ t - Head(logs) > w
    THEN flush(Tail(logs), t, w)
    ELSE logs

\* Throttler.ntasks_in_window, on a given log
ntasks(logs) == Len(logs) + Cardinality(_running_tasks)

ntasks_in_window == ntasks(_task_logs)

\* (mutation of ReqPerWindowAt: the clamp to 1 forgotten)
ReqPerWindowUnclamped(c, n) == c - 2 ^ n

\* Throttler.req_per_window at backoff level n
ReqPerWindowAt(c, n) == Maximum(c - 2 ^ n, 1)

req_per_window == ReqPerWindowAt(_req_per_window, _backoff_n)

\* ---- OrderedThrottleSession
Unreachable == -1

\* A next_seq that returns one past the largest pending number, so a number
\* removed from the middle of the pending set is never handed out again.
next_seq_past_max(S) == IF S = {} THEN 0 ELSE Max(S) + 1

\* (mutation of next_seq: the scan stops at max(S), range(max(S) + 1))
next_seq_short_range(S) ==
    IF S = {} THEN 0
    ELSE LET free == {i \in 0..Max(S) : i \notin S}
         IN  IF free = {} THEN Unreachable ELSE Min(free)

\* OrderedThrottleSession.next_seq on the set S
next_seq(S) ==
    IF S = {} THEN 0
    ELSE LET free == {i \in 0..(Max(S) + 1) : i \notin S}
         IN  IF free = {} THEN Unreachable ELSE Min(free)

\* (mutation of MayProceed: the rate test off by one)
MayProceedOffByOne(logs, s, i) ==
    /\ ntasks(logs) <= req_per_window
    /\ next_seq(seqs[s]) = i

\* (mutation of MayProceed: the ordering test dropped)
MayProceedNoOrder(logs, s, i) ==
    ntasks(logs) < req_per_window

\* (mutation of MayProceed: the ordering test taken only on an empty set)
MayProceedLooseOrder(logs, s, i) ==
    /\ ntasks(logs) < req_per_window
    /\ seqs[s] = {} => next_seq(seqs[s]) = i

\* the negated while-condition of acquire, evaluated on the log `logs`
MayProceed(logs, s, i) ==
    /\ ntasks(logs) < req_per_window
    /\ next_seq(seqs[s]) = i

\* (mutation of Admit: line 147 left out, the number is not claimed)
AdmitForgetsSeq(t, s, i) ==
    /\ UNCHANGED seqs
    /\ _running_tasks' = _running_tasks \cup {t}
    /\ cancelled' = [cancelled EXCEPT ![t] = FALSE]
    /\ pc' = [pc EXCEPT ![t] = "yielded"]
    /\ hist' = [hist EXCEPT ![s] = Append(@, <<"admit", i>>)]

\* (mutation of Admit: seqs a class attribute, one set for all the sessions)
AdmitSharedSeqs(t, s, i) ==
    /\ seqs' = [x \in Sessions |-> seqs[x] \cup {i}]
    /\ _running_tasks' = _running_tasks \cup {t}
    /\ cancelled' = [cancelled EXCEPT ![t] = FALSE]
    /\ pc' = [pc EXCEPT ![t] = "yielded"]
    /\ hist' = [hist EXCEPT ![s] = Append(@, <<"admit", i>>)]

\* lines 147-157 of acquire: claim i, register the task id, yield cancel
Admit(t, s, i) ==
    /\ seqs' = [seqs EXCEPT ![s] = @ \cup {i}]
    /\ _running_tasks' = _running_tasks \cup {t}
    /\ cancelled' = [cancelled EXCEPT ![t] = FALSE]
    /\ pc' = [pc EXCEPT ![t] = "yielded"]
    /\ hist' = [hist EXCEPT ![s] = Append(@, <<"admit", i>>)]

\* the while loop found its condition true: await asyncio.sleep(retry_interval)
Suspend(t) ==
    /\ pc' = [pc EXCEPT ![t] = "sleep"]
    /\ UNCHANGED <<seqs, _running_tasks, cancelled, hist>>

\* the clock is followed until MaxTime ticks after the first window has passed
LastTick == _window + MaxTime

TypeOK ==
    /\ _req_per_window \in 1..MaxCap
    /\ _backoff_n \in 0..MaxBackoff
    /\ _running_tasks \subseteq Tasks
    /\ now \in 0..LastTick
    /\ pc \in [Tasks -> {"idle", "sleep", "yielded", "finished", "raised"}]

\* ---- schema/base.py: values
\* a Python value: its type and, for a scalar, its value; for a dict, its
\* identity in `dicts`
PyNone == [ty |-> "NoneType", v |-> 0]
Absent == [ty |-> "absent", v |-> 0]
PyInt(n) == [ty |-> "int", v |-> n]
PyBool(n) == [ty |-> "bool", v |-> n]
PyStr(n) == [ty |-> "str", v |-> n]
PyFloat(n) == [ty |-> "float", v |-> n]
DictRef(id) == [ty |-> "dict", v |-> id]

Scalars ==
    {PyInt(0), PyInt(1), PyBool(0), PyBool(1), PyStr(0), PyStr(1), PyFloat(1)}
Keys == 1..NKeys
\* the values of a Dict[str, int]: per key, an int or no entry
DictValues == [Keys -> {Absent, PyInt(0), PyInt(1)}]
\* in place of a dict: the attribute is None
NoDict == [k \in Keys |-> PyNone]

\* isinstance(rhs, type(lhs)); bool is a subclass of int
IsInstance(rhs, lhs) ==
    rhs.ty = lhs.ty \/ (rhs.ty = "bool" /\ lhs.ty = "int")

\* lhs == rhs on scalars: numbers compare by value across int, bool and
\* float, a str equals only an equal str
PyEq(lhs, rhs) ==
    IF lhs.ty = "str" \/ rhs.ty = "str" THEN lhs = rhs ELSE lhs.v = rhs.v

Return(x) == [kind |-> "return", val |-> x]
Raise(e) == [kind |-> e, val |-> PyNone]

\* the values Field.__init__ accepts for merge; None is written "None"
MergePolicies == {"None", "same", "override", "keep"}
NoPolicy == [merge |-> "undefined", override_none |-> TRUE]
NoMerge == [n |-> 0, kind |-> "none", id |-> 0, self |-> 0, rhs |-> 0]
NoCall ==
    [called |-> FALSE, lhs |-> PyNone, rhs |-> PyNone, merge |-> "None",
     out |-> Raise("none")]

\* ---- initial states: Throttler(req_per_window, window) and two sessions of it
InitRest ==
    /\ _backoff_n = 0
    /\ _task_logs = <<>>
    /\ _running_tasks = {}
    /\ seqs = [s \in Sessions |-> {}]
    /\ now = 0
    /\ pc = [t \in Tasks |-> "idle"]
    /\ sess = [t \in Tasks |-> "s1"]
    /\ seq = [t \in Tasks |-> 0]
    /\ cancelled = [t \in Tasks |-> FALSE]
    /\ ncancel = [t \in Tasks |-> 0]
    /\ keyerr = [t \in Tasks |-> FALSE]
    /\ nbackoff = 0
    /\ hist = [s \in Sessions |-> <<>>]
    /\ nfinish = 0
    /\ nfinerr = 0
    /\ policy = NoPolicy
    /\ objs = <<>>
    /\ dicts = <<>>
    /\ ret = NoMerge
    /\ mv = NoCall

Init ==
    /\ _req_per_window \in 1..MaxCap
    /\ _window \in 1..MaxWindow
    /\ InitRest

\* ---- actions
\* task t enters acquire(i) on session s: the first test of the loop, with no
\* flush before it, then either the admission or the first sleep
Acquire(t, s, i) ==
    /\ pc[t] = "idle"
    \* tasks and sessions are interchangeable: they are numbered in the order
    \* in which they first appear
    /\ \A u \in Tasks : u < t => pc[u] # "idle"
    /\ s = "s2" => \E u \in Tasks : pc[u] # "idle" /\ sess[u] = "s1"
    /\ sess' = [sess EXCEPT ![t] = s]
    /\ seq' = [seq EXCEPT ![t] = i]
    /\ IF MayProceed(_task_logs, s, i) THEN Admit(t, s, i) ELSE Suspend(t)
    /\ UNCHANGED <<_req_per_window, _window, _backoff_n, _task_logs, now,
                   ncancel, keyerr, nbackoff>>
    /\ UNCHANGED finVars
    /\ UNCHANGED schemaVars

\* task t returns from asyncio.sleep: flush(), then the test again.
\* retry_interval (0.01 s by default) is shorter than a tick, so the sleep may
\* end within the tick it began in
Wake(t) ==
    /\ pc[t] = "sleep"
    /\ LET logs == flush(_task_logs, now, _window)
       IN  /\ _task_logs' = logs
           /\ IF MayProceed(logs, sess[t], seq[t])
              THEN Admit(t, sess[t], seq[t])
              ELSE Suspend(t)
    /\ UNCHANGED <<_req_per_window, _window, _backoff_n, now, sess, seq,
                   ncancel, keyerr, nbackoff>>
    /\ UNCHANGED finVars
    /\ UNCHANGED schemaVars

\* the closure cancel() of task t's token, callable for as long as the caller
\* holds it: cancelled = True, then self.seqs.remove(i), which raises KeyError
\* when i is not in the set
Cancel(t) ==
    /\ pc[t] \in {"yielded", "finished", "raised"}
    /\ Sum(ncancel, Tasks) < MaxCancelCalls
    /\ ncancel' = [ncancel EXCEPT ![t] = @ + 1]
    /\ cancelled' = [cancelled EXCEPT ![t] = TRUE]
    /\ IF seq[t] \in seqs[sess[t]]
       THEN /\ seqs' = [seqs EXCEPT ![sess[t]] = @ \ {seq[t]}]
            /\ hist' = [hist EXCEPT ![sess[t]] = Append(@, <<"cancel", seq[t]>>)]
            /\ UNCHANGED keyerr
       ELSE /\ keyerr' = [keyerr EXCEPT ![t] = TRUE]
            /\ UNCHANGED <<seqs, hist>>
    /\ UNCHANGED <<thrVars, now, pc, sess, seq, nbackoff>>
    /\ UNCHANGED finVars
    /\ UNCHANGED schemaVars

\* Throttler.finish(task_id, cancel)
finish(t, cancel) ==
    /\ t \in _running_tasks
    /\ _running_tasks' = _running_tasks \ {t}
    /\ _task_logs' = IF cancel THEN _task_logs ELSE Append(_task_logs, now)

\* the body of task t's scope ends normally: the generator resumes after the
\* yield and runs self.thr.finish(task_id, cancelled)
ExitNormal(t) ==
    /\ pc[t] = "yielded"
    /\ finish(t, cancelled[t])
    /\ pc' = [pc EXCEPT ![t] = "finished"]
    /\ UNCHANGED <<_req_per_window, _window, _backoff_n, seqs, now, sess, seq,
                   cancelled, ncancel, keyerr, nbackoff, hist>>
    /\ UNCHANGED finVars
    /\ UNCHANGED schemaVars

\* the body of task t's scope raises: the exception is thrown into the
\* generator at the yield, which is inside no try block, so the generator ends
\* there and line 159 never runs
ExitRaise(t) ==
    /\ pc[t] = "yielded"
    /\ pc' = [pc EXCEPT ![t] = "raised"]
    /\ UNCHANGED <<thrVars, seqs, now, sess, seq, cancelled, ncancel, keyerr,
                   nbackoff, hist>>
    /\ UNCHANGED finVars
    /\ UNCHANGED schemaVars

\* (mutation of Backoff: the completion log is dropped with the level raised)
BackoffClearsLog ==
    /\ nbackoff < MaxBackoff
    /\ _backoff_n' = _backoff_n + 1
    /\ nbackoff' = nbackoff + 1
    /\ _task_logs' = <<>>
    /\ UNCHANGED <<_req_per_window, _window, _running_tasks, seqs,
                   now, pc, sess, seq, cancelled, ncancel, keyerr, hist>>
    /\ UNCHANGED finVars
    /\ UNCHANGED schemaVars

\* Throttler.backoff, also reached through OrderedThrottleSession.backoff
Backoff ==
    /\ nbackoff < MaxBackoff
    /\ _backoff_n' = _backoff_n + 1
    /\ nbackoff' = nbackoff + 1
    /\ UNCHANGED <<_req_per_window, _window, _task_logs, _running_tasks, seqs,
                   now, pc, sess, seq, cancelled, ncancel, keyerr, hist>>
    /\ UNCHANGED finVars
    /\ UNCHANGED schemaVars

\* a direct call of the public Throttler.flush
FlushCall ==
    /\ _task_logs' = flush(_task_logs, now, _window)
    /\ _task_logs' # _task_logs
    /\ UNCHANGED <<_req_per_window, _window, _backoff_n, _running_tasks, seqs,
                   now, pc, sess, seq, cancelled, ncancel, keyerr, nbackoff, hist>>
    /\ UNCHANGED finVars
    /\ UNCHANGED schemaVars

\* the clock advances
Tick ==
    /\ now < LastTick
    /\ now' = now + 1
    /\ UNCHANGED <<thrVars, seqs, pc, sess, seq, cancelled, ncancel, keyerr,
                   nbackoff, hist>>
    /\ UNCHANGED finVars
    /\ UNCHANGED schemaVars

\* (mutation of finishRaises: set.discard in place of set.remove, so the call
\* goes on to the log)
finishDiscards(id, cancel) ==
    /\ _running_tasks' = _running_tasks \ {id}
    /\ _task_logs' = IF cancel THEN _task_logs ELSE Append(_task_logs, now)
    /\ UNCHANGED nfinerr

\* Throttler.finish(task_id, cancel) when task_id is not in _running_tasks:
\* set.remove raises KeyError on line 105 and lines 106-107 are not reached
finishRaises(id, cancel) ==
    /\ nfinerr' = nfinerr + 1
    /\ UNCHANGED <<_running_tasks, _task_logs>>

\* a direct call of the public Throttler.finish with an id that is not in
\* flight: the id of a token never admitted, or of one already finished
FinishCall(id, cancel) ==
    /\ id \notin _running_tasks
    /\ nfinish < MaxFinishCalls
    /\ nfinish' = nfinish + 1
    /\ finishRaises(id, cancel)
    /\ UNCHANGED <<_req_per_window, _window, _backoff_n, seqs, now, pc, sess,
                   seq, cancelled, ncancel, keyerr, nbackoff, hist>>
    /\ UNCHANGED schemaVars

DoAcquire == \E t \in Tasks, s \in Sessions, i \in SeqNums : Acquire(t, s, i)
DoWake == \E t \in Tasks : Wake(t)
DoCancel == \E t \in Tasks : Cancel(t)
DoExitNormal == \E t \in Tasks : ExitNormal(t)
DoExitRaise == \E t \in Tasks : ExitRaise(t)

Next ==
    \/ DoAcquire
    \/ DoWake
    \/ DoCancel
    \/ DoExitNormal
    \/ DoExitRaise
    \/ Backoff
    \/ FlushCall
    \/ Tick

Spec == Init /\ [][Next]_vars

\* the spec's concrete scenario: Throttler(2, window=1.0)
InitScenario ==
    /\ _req_per_window = 2
    /\ _window = DefaultWindow
    /\ InitRest

SpecScenario == InitScenario /\ [][Next]_vars

\* Throttler.__init__ stores whatever it is given: the constructor called with
\* any integers around zero, non-positive ones included
InitAnyParameters ==
    /\ _req_per_window \in (0 - 1)..1
    /\ _window \in (0 - 1)..1
    /\ InitRest

SpecAnyParameters == InitAnyParameters /\ [][Next]_vars

\* ---- the program under the premises of the progress contract
\* time keeps advancing.  Only the differences now - t are ever read (flush),
\* and only against _window, so once the clock has reached LastTick a further
\* tick is recorded by moving every logged timestamp one tick back instead,
\* no further than just past the window
TickProgress ==
    /\ IF now < LastTick
       THEN /\ now' = now + 1
            /\ UNCHANGED _task_logs
       ELSE /\ now' = now
            /\ _task_logs' = [k \in DOMAIN _task_logs |->
                                Maximum(_task_logs[k] - 1, now - _window - 1)]
    /\ UNCHANGED <<_req_per_window, _window, _backoff_n, _running_tasks, seqs,
                   pc, sess, seq, cancelled, ncancel, keyerr, nbackoff, hist>>
    /\ UNCHANGED finVars
    /\ UNCHANGED schemaVars

\* the callers of one session request every number of 0..NTasks-1, each once,
\* in any order
AcquireProgress(t, i) ==
    /\ \A u \in Tasks : pc[u] # "idle" => seq[u] # i
    /\ Acquire(t, "s1", i)

DoAcquireProgress == \E t \in Tasks, i \in SeqNums : AcquireProgress(t, i)

\* no cancel(), no exception in a scope
NextProgress ==
    \/ DoAcquireProgress
    \/ DoWake
    \/ DoExitNormal
    \/ Backoff
    \/ TickProgress

\* the event loop runs every task that is ready: a task waiting to call
\* acquire calls it, a sleeping task wakes, a task inside its scope leaves it,
\* and the clock goes on
SpecProgress ==
    /\ Init
    /\ [][NextProgress]_vars
    /\ WF_vars(DoAcquireProgress)
    /\ WF_vars(TickProgress)
    /\ \A t \in Tasks : WF_vars(Wake(t)) /\ WF_vars(ExitNormal(t))

\* the program with direct calls of Throttler.finish on ids not in flight
DoFinishCall == \E id \in Tasks, cancel \in BOOLEAN : FinishCall(id, cancel)

NextFinish == Next \/ DoFinishCall

SpecFinish == Init /\ [][NextFinish]_vars

\* ---- what the history says
Admitted(h) == SelectSeq(h, LAMBDA e : e[1] = "admit")
Withdrawn(h) == SelectSeq(h, LAMBDA e : e[1] = "cancel")
NonDecreasing(h) == \A p, q \in DOMAIN h : p < q => h[p][2] <= h[q][2]
\* some number was withdrawn after a larger one had been admitted
LateCancel(h) ==
    \E p, q \in DOMAIN h :
        p < q /\ h[p][1] = "admit" /\ h[q][1] = "cancel" /\ h[p][2] > h[q][2]

\* ---- C1
\* C1 as stated: in every reachable state ntasks_in_window() is at most the
\* effective capacity req_per_window, backoff() calls included.
C1_RateBound == ntasks_in_window <= req_per_window

\* C1 amended: ntasks_in_window() never exceeds the effective capacity of
\* backoff level 0, max(_req_per_window - 1, 1); so it is at most
\* req_per_window for as long as backoff() has not been called.
C1_RateBoundLevel0 ==
    /\ ntasks_in_window <= ReqPerWindowAt(_req_per_window, 0)
    /\ nbackoff = 0 => ntasks_in_window <= req_per_window

\* the budget is used up by two admissions, with no backoff
C1_Witness ==
    /\ nbackoff = 0
    /\ Cardinality(_running_tasks) + Len(_task_logs) = req_per_window
    /\ req_per_window = 2
    /\ _running_tasks # {} /\ _task_logs # <<>>

\* ---- C2
\* C2: on a session where no token has been cancelled, the admissions so far
\* are exactly 0, 1, 2, ... in this order, whatever order the acquire calls
\* were started in: acquire(i) is admitted only after every acquire(j), j < i.
C2_OrderedNoCancel ==
    \A s \in Sessions :
        Withdrawn(hist[s]) = <<>> =>
            /\ \A k \in DOMAIN hist[s] : hist[s][k] = <<"admit", k - 1>>
            /\ \A t \in Tasks :
                   (pc[t] # "idle" /\ sess[t] = s /\ pc[t] # "sleep") =>
                       \A j \in 0..(seq[t] - 1) : j \in seqs[s]

\* acquire(1) was started before acquire(0) (tasks start in index order) and
\* was admitted after it
C2_Witness ==
    /\ sess[1] = "s1" /\ seq[1] = 1
    /\ sess[2] = "s1" /\ seq[2] = 0
    /\ pc[1] = "yielded" /\ pc[2] = "yielded"
    /\ hist["s1"] = <<(<<"admit", 0>>), (<<"admit", 1>>)>>

\* ---- C3
\* C3 as stated: in every execution, cancellations included, no sequence
\* number is admitted after a larger one has been admitted.
C3_AscendingAlways ==
    \A s \in Sessions : NonDecreasing(Admitted(hist[s]))

\* C3 amended: the admitted sequence numbers of a session are in ascending
\* order in every execution in which no token is cancelled after a larger
\* sequence number has been admitted.
C3_AscendingUnlessLateCancel ==
    \A s \in Sessions :
        ~LateCancel(hist[s]) => NonDecreasing(Admitted(hist[s]))

\* 0 is cancelled and acquired again before 1 is admitted
C3_Witness ==
    hist["s1"] = <<(<<"admit", 0>>), (<<"cancel", 0>>), (<<"admit", 0>>),
                   (<<"admit", 1>>)>>

\* ---- steps of one task, as seen from outside
\* task t enters acquire in this step
Enters(t) == pc[t] = "idle" /\ pc'[t] # "idle"
\* the scope of task t's token exits in this step, normally or by an exception
ScopeExits(t) == pc[t] = "yielded" /\ pc'[t] \in {"finished", "raised"}
\* task t calls its cancel() for the first time in this step, inside its scope
FirstCancel(t) == pc[t] = "yielded" /\ ncancel[t] = 0 /\ ncancel'[t] = 1

\* ---- C4
\* C4: once the scope of an admitted token has exited, normally or by an
\* exception, finish has run for it: its id is no longer in the in-flight set.
C4_ReleasedOnExit ==
    \A t \in Tasks : pc[t] \in {"finished", "raised"} => t \notin _running_tasks

\* ---- C5
\* number i of history h was withdrawn before any larger number was admitted,
\* and has not been admitted again since
FreedInTime(h, i) ==
    \E q \in DOMAIN h :
        /\ h[q] = <<"cancel", i>>
        /\ \A p \in DOMAIN h : h[p][1] = "admit" =>
               IF p < q THEN h[p][2] <= i ELSE h[p][2] # i

\* C5: when the token admitted for s is cancelled before any larger number is
\* admitted, (a) a new caller's acquire(s) is admitted as soon as the rate test
\* holds (every smaller number being claimed), and (b) the exit of the
\* cancelled token's scope leaves the completion log as it was and the
\* token's id out of the in-flight set, so that it is no longer counted.
C5_CancelFreesSlot ==
    [][ /\ \A t \in Tasks :
            ( /\ Enters(t)
              /\ FreedInTime(hist[sess'[t]], seq'[t])
              /\ \A j \in 0..(seq'[t] - 1) : j \in seqs[sess'[t]]
              /\ ntasks_in_window < req_per_window )
            => pc'[t] = "yielded"
        /\ \A t \in Tasks :
            (ScopeExits(t) /\ cancelled[t])
            => /\ _task_logs' = _task_logs
               /\ t \notin _running_tasks'
               /\ ntasks_in_window' = ntasks_in_window - 1 ]_vars

\* ---- C6
\* C6: a token's first cancel() inside its scope raises nothing and removes
\* its sequence number from the pending set; when the scope of a token
\* cancelled once then exits, its id leaves the in-flight set and the
\* completion log is unchanged.
C6_CancelPath ==
    [][ /\ \A t \in Tasks :
            FirstCancel(t)
            => /\ ~keyerr'[t]
               /\ seq[t] \in seqs[sess[t]]
               /\ seqs' = [seqs EXCEPT ![sess[t]] = @ \ {seq[t]}]
               /\ UNCHANGED <<_running_tasks, _task_logs>>
        /\ \A t \in Tasks :
            (ScopeExits(t) /\ ncancel[t] = 1)
            => /\ t \in _running_tasks /\ _running_tasks' = _running_tasks \ {t}
               /\ _task_logs' = _task_logs
               /\ UNCHANGED seqs ]_vars

\* ---- C7
RECURSIVE TwoTo(_)
TwoTo(k) == IF k = 0 THEN 1 ELSE 2 * TwoTo(k - 1)

\* C7: after k calls of backoff() req_per_window is max(c - 2^k, 1), which is
\* never below 1; no step raises req_per_window or lowers the backoff level.
C7_BackoffFormula ==
    /\ [](LET d == _req_per_window - TwoTo(nbackoff)
          IN  /\ req_per_window = (IF d < 1 THEN 1 ELSE d)
              /\ req_per_window >= 1
              /\ _backoff_n = nbackoff)
    /\ [][ /\ req_per_window' <= req_per_window
           /\ _backoff_n' >= _backoff_n
           /\ _req_per_window' = _req_per_window ]_vars

\* two backoff() calls on a Throttler of capacity 3: 3 - 4 < 1, clamped to 1,
\* with a session holding an admitted token
C7_Witness ==
    /\ nbackoff = 2
    /\ _req_per_window = 3
    /\ req_per_window = 1
    /\ _running_tasks # {}

\* ---- C8
\* C8: Throttler(2, window=1.0), no backoff: while one operation is in flight
\* and the completion log is empty, an acquire for the next sequence number
\* of its session is admitted on entry, without sleeping.
C8_SecondAdmittedAtOnce ==
    [][ \A t \in Tasks :
          ( /\ Enters(t)
            /\ _req_per_window = 2 /\ _window = DefaultWindow /\ nbackoff = 0
            /\ Cardinality(_running_tasks) = 1 /\ _task_logs = <<>>
            /\ \E u \in _running_tasks : sess[u] = sess'[t]
            /\ seq'[t] = next_seq(seqs[sess'[t]]) )
          => pc'[t] = "yielded" ]_vars

\* ---- C9
\* everything admitted so far has completed normally, at t = 0.1 s or at
\* t = 0.2 s (ticks 2 and 4), and something has
SomeCompletedNoneInFlight ==
    /\ _running_tasks = {}
    /\ \A k \in DOMAIN _task_logs : _task_logs[k] \in {2, 4}
    /\ \E t \in Tasks : pc[t] = "finished" /\ ncancel[t] = 0
    /\ \A t \in Tasks : pc[t] \in {"idle", "sleep"} \/ (pc[t] = "finished" /\ ncancel[t] = 0)

\* C9: Throttler(2, window=1.0), no backoff: at t = 0.3 s (tick 6), the
\* operations admitted since t = 0 having completed, ntasks_in_window() is 0
\* and an acquire entered then for the next sequence number is admitted on
\* entry.
C9_ThirdAdmittedAtOnce ==
    /\ []( ( /\ _req_per_window = 2 /\ _window = DefaultWindow /\ nbackoff = 0
             /\ now = 6
             /\ SomeCompletedNoneInFlight )
           => ntasks_in_window = 0 )
    /\ [][ \A t \in Tasks :
            ( /\ Enters(t)
              /\ _req_per_window = 2 /\ _window = DefaultWindow /\ nbackoff = 0
              /\ now = 6
              /\ SomeCompletedNoneInFlight
              /\ seq'[t] = next_seq(seqs[sess'[t]]) )
            => pc'[t] = "yielded" ]_vars

\* ---- C10
\* C10: whenever ntasks_in_window() may be queried, that is in every state,
\* it counts no completion logged more than one window ago.
C10_NoExpiredCounted ==
    \A k \in DOMAIN _task_logs : ~(now > _task_logs[k] + _window)

-----------------------------------------------------------------------------
\* The test a suspended acquire(i) makes when it next wakes: flush, then the
\* admission test on the pruned log.
NextTestAdmits(t) ==
    MayProceed(flush(_task_logs, now, _window), sess[t], seq[t])

RateTestHolds ==
    Len(flush(_task_logs, now, _window)) + Cardinality(_running_tasks)
        < req_per_window

AdmittedOrWithdrawn(s, j) == \E k \in DOMAIN hist[s] : hist[s][k][2] = j

\* C11 (as stated): once every number in 0..i-1 has been admitted or
\* withdrawn on the session, a suspended acquire(i) is admitted at its next
\* test whenever the rate test holds, even if a withdrawn number has not been
\* acquired again.
C11_WithdrawnDoesNotBlock ==
    \A t \in Tasks :
        ( /\ pc[t] = "sleep"
          /\ seq[t] \notin seqs[sess[t]]
          /\ \A j \in 0..(seq[t] - 1) : AdmittedOrWithdrawn(sess[t], j)
          /\ RateTestHolds )
        => NextTestAdmits(t)

\* C11 (amended): a suspended acquire(i) is admitted at its next test exactly
\* when the rate test holds and every number in 0..i-1 is in the pending set
\* at that moment and i is not; a withdrawn number that has not been acquired
\* again blocks every larger number.  Every admission step happens with all
\* smaller numbers pending.
C11_BlockedUntilReacquired ==
    /\ [](\A t \in Tasks :
            pc[t] = "sleep" =>
                ( NextTestAdmits(t) <=>
                    /\ RateTestHolds
                    /\ seq[t] \notin seqs[sess[t]]
                    /\ \A j \in 0..(seq[t] - 1) : j \in seqs[sess[t]] ))
    /\ [][\A t \in Tasks :
            (pc[t] # "yielded" /\ pc'[t] = "yielded") =>
                \A j \in 0..(seq'[t] - 1) : j \in seqs[sess'[t]]]_vars

\* Number 0 was admitted and withdrawn, the rate test holds, and acquire(1)
\* is suspended behind the withdrawn number.
C11_Witness ==
    \E t \in Tasks :
        /\ pc[t] = "sleep" /\ seq[t] = 1
        /\ hist[sess[t]] = <<(<<"admit", 0>>), (<<"cancel", 0>>)>>
        /\ RateTestHolds
        /\ ~NextTestAdmits(t)

\* A step in which token t's cancel() is called.
CancelCalled(t) == ncancel'[t] = ncancel[t] + 1

\* C12: a cancel() call made a second time on a token, or after the token's
\* scope has exited, raises and leaves the pending sets unchanged.
C12_RepeatedCancelFailsLoudly ==
    [][\A t \in Tasks :
        (CancelCalled(t) /\ (ncancel[t] >= 1 \/ pc[t] # "yielded")) =>
            (keyerr'[t] /\ seqs' = seqs)]_vars

\* C13: Throttler.finish(task_id, cancel) called with a task_id that is not
\* in flight raises, and leaves the in-flight set, the completion log and the
\* backoff level unchanged, whatever cancel is.
C13_UnknownFinishRaises ==
    /\ [](nfinerr = nfinish)
    /\ [][nfinish' # nfinish =>
            /\ nfinerr' = nfinerr + 1
            /\ UNCHANGED <<_running_tasks, _task_logs, _backoff_n>>]_vars

\* finish was called on an id not in flight while one token was in flight,
\* another had already finished and the log held its completion.
C13_Witness ==
    /\ nfinish = 1 /\ nfinerr = 1
    /\ _running_tasks # {}
    /\ _task_logs # <<>>
    /\ \E t \in Tasks : pc[t] = "finished"
    /\ _backoff_n > 0

\* C14: constructing a Throttler with a non-positive req_per_window or window
\* fails, so no such Throttler ever admits a task, with a clamped capacity or
\* otherwise.
C14_NoNonPositiveThrottler ==
    (\E t \in Tasks : pc[t] = "yielded") =>
        (_req_per_window >= 1 /\ _window >= 1)

\* C15: under the progress premises (every number of 0..n-1 requested, no
\* cancel, every scope left normally, time advancing, fair scheduling), for
\* every configured capacity and any number of backoffs, every acquire(i) is
\* eventually admitted.
C15_EveryAcquireAdmitted ==
    \A t \in Tasks : <>(pc[t] \in {"yielded", "finished"})

\* All the tasks were admitted and finished one after the other with the
\* effective capacity backed off to 1 and the last number admitted last.
C15_Witness ==
    /\ \A t \in Tasks : pc[t] = "finished"
    /\ _backoff_n = MaxBackoff
    /\ req_per_window = 1
    /\ Len(hist["s1"]) = NTasks
    /\ hist["s1"][NTasks] = <<"admit", NTasks - 1>>

\* A step in which task t is admitted by acquire.
AdmittedNow(t) == pc[t] # "yielded" /\ pc'[t] = "yielded"

\* A step taken by a task of session s: an acquire, a wake-up, a scope exit
\* or a cancel() call.
ActsOn(t, s) ==
    /\ sess'[t] = s
    /\ pc'[t] # pc[t] \/ ncancel'[t] # ncancel[t]

\* the smallest natural number not in S
SmallestFree(S) ==
    CHOOSE n \in 0..Cardinality(S) :
        n \notin S /\ \A m \in 0..(n - 1) : m \in S

\* C16: a session's pending set changes only in steps of its own tasks, so
\* every acquire, release and cancel on one session leaves the other's set
\* unchanged; a suspended acquire whose number is the smallest one missing on
\* its own session passes its next test as soon as the rate test holds,
\* whatever is missing on the other session; every admission, on either
\* session, enters the one in-flight set, and every normal completion the one
\* log.
C16_SessionsIndependent ==
    /\ [](\A t \in Tasks :
            ( /\ pc[t] = "sleep"
              /\ RateTestHolds
              /\ seq[t] = SmallestFree(seqs[sess[t]]) ) => NextTestAdmits(t))
    /\ [][ /\ \A s \in Sessions :
                seqs'[s] # seqs[s] => \E t \in Tasks : ActsOn(t, s)
           /\ \A t \in Tasks :
                AdmittedNow(t) => _running_tasks' = _running_tasks \cup {t}
           /\ \A t \in Tasks :
                (pc[t] = "yielded" /\ pc'[t] = "finished" /\ ~cancelled[t]) =>
                    /\ _task_logs' = Append(_task_logs, now)
                    /\ _running_tasks' = _running_tasks \ {t} ]_vars

\* Number 0 is missing on s1, where acquire(1) waits for it; acquire(0) on s2
\* was admitted all the same, and its in-flight id now fills the shared window
\* so that acquire(0) on s1 waits for the rate test.
C16_Witness ==
    /\ pc = <<"sleep", "yielded", "sleep">>
    /\ sess = <<"s1", "s2", "s1">>
    /\ seq = <<1, 0, 0>>
    /\ seqs = [s \in Sessions |-> IF s = "s2" THEN {0} ELSE {}]
    /\ _running_tasks = {2}
    /\ ~RateTestHolds

\* C17: every admission happens in a step in whose pre-state the test holds
\* (on the log as pruned in that step): ntasks_in_window() < req_per_window
\* and next_seq() = i; the same step adds i to the pending set and the id to
\* the in-flight set, and no other task moves in it.
C17_AtomicCheckAndAdmit ==
    [][\A t \in Tasks :
        AdmittedNow(t) =>
            /\ Len(_task_logs') + Cardinality(_running_tasks) < req_per_window
            /\ SmallestFree(seqs[sess'[t]]) = seq'[t]
            /\ seqs' = [seqs EXCEPT ![sess'[t]] = @ \cup {seq'[t]}]
            /\ _running_tasks' = _running_tasks \cup {t}
            /\ t \notin _running_tasks
            /\ Cardinality(_running_tasks') + Len(_task_logs') <= req_per_window'
            /\ \A u \in Tasks \ {t} : pc'[u] = pc[u] ]_vars

\* Two tokens are in flight and fill the effective capacity; the third task,
\* whose number is next, waits for the rate test.
C17_Witness ==
    /\ pc = <<"yielded", "yielded", "sleep">>
    /\ seq = <<0, 1, 2>>
    /\ seqs["s1"] = {0, 1}
    /\ Cardinality(_running_tasks) = 2
    /\ req_per_window = 2

\* C18: the first test of acquire is made on the pruned log too: an
\* acquire(i) with i = next_seq() that arrives when every logged completion
\* is older than the window and the in-flight count is below the capacity is
\* admitted without suspending.
C18_FirstTestPruned ==
    [][\A t \in Tasks :
        ( /\ Enters(t)
          /\ _task_logs # <<>>
          /\ flush(_task_logs, now, _window) = <<>>
          /\ Cardinality(_running_tasks) < req_per_window
          /\ seq'[t] = next_seq(seqs[sess'[t]]) )
        => pc'[t] = "yielded"]_vars

\* C19: next_seq() is the smallest non-negative integer not in the pending
\* set, 0 for the empty set, and never takes the 'Unreachable' branch.
C19_NextSeqSmallestFree ==
    \A s \in Sessions :
        /\ next_seq(seqs[s]) # Unreachable
        /\ next_seq(seqs[s]) = SmallestFree(seqs[s])
        /\ seqs[s] = {} => next_seq(seqs[s]) = 0

\* The pending set has a hole in the middle, and next_seq() is the hole.
C19_Witness ==
    /\ seqs["s1"] = {0, 2}
    /\ next_seq(seqs["s1"]) = 1

\* C20: when a token that never called cancel() leaves its scope normally,
\* its number is in the pending set afterwards, one timestamp is appended and
\* its id leaves the in-flight set; and no later acquire on the session is
\* admitted for the number of such a token.
C20_NormalCompletionConsumes ==
    [][\A t \in Tasks :
        /\ (pc[t] = "yielded" /\ pc'[t] = "finished" /\ ncancel[t] = 0) =>
                /\ seq[t] \in seqs'[sess[t]]
                /\ _task_logs' = Append(_task_logs, now)
                /\ _running_tasks' = _running_tasks \ {t}
        /\ AdmittedNow(t) =>
                ~\E u \in Tasks \ {t} :
                    /\ pc[u] = "finished" /\ ncancel[u] = 0
                    /\ sess[u] = sess'[t] /\ seq[u] = seq'[t] ]_vars

\* the entries of a log that are within the window at time t
WithinWindow(logs, t, w) == SelectSeq(logs, LAMBDA e : t - e <= w)

\* C21: flush() at time now leaves exactly the entries t with
\* now - t <= window (one as old as the window is kept), in every log the
\* program builds; flushing the result again changes nothing; a step that
\* shortens the log leaves the backoff level alone, and the in-flight set too
\* unless the step is an admission after the flush.
C21_FlushPrunes ==
    /\ [](LET flushed == flush(_task_logs, now, _window)
          IN  /\ flushed = WithinWindow(_task_logs, now, _window)
              /\ flush(flushed, now, _window) = flushed)
    /\ [][Len(_task_logs') < Len(_task_logs) =>
            /\ _task_logs' = WithinWindow(_task_logs, now, _window)
            /\ _backoff_n' = _backoff_n
            /\ pc' = pc => _running_tasks' = _running_tasks]_vars

\* Two tokens completed without cancel, one tick apart; the older completion
\* has been flushed and the younger, exactly as old as the window, is kept.
C21_Witness ==
    /\ \E t, u \in Tasks : t # u /\ pc[t] = "finished" /\ pc[u] = "finished"
    /\ \A t \in Tasks : ncancel[t] = 0 /\ pc[t] \in {"finished", "idle"}
    /\ Len(_task_logs) = 1
    /\ now - _task_logs[1] = _window

\* C22: on a session used without any cancel() call the pending set is
\* always {0, ..., k-1}, k being the number of admissions made on the session
\* so far, next_seq() is k, and no step removes a number from the set.
C22_DensePrefix ==
    /\ [](\A s \in Sessions :
            (\A t \in Tasks : sess[t] = s => ncancel[t] = 0) =>
                /\ seqs[s] = 0..(Len(hist[s]) - 1)
                /\ next_seq(seqs[s]) = Len(hist[s]))
    /\ [][\A s \in Sessions :
            (\A t \in Tasks : sess'[t] = s => ncancel'[t] = 0) =>
                seqs[s] \subseteq seqs'[s]]_vars

\* Three admissions on s1 and no cancel anywhere: the set is {0, 1, 2}.
C22_Witness ==
    /\ \A t \in Tasks : ncancel[t] = 0 /\ sess[t] = "s1" /\ pc[t] # "idle"
    /\ Len(hist["s1"]) = 3
    /\ seqs["s1"] = {0, 1, 2}
    /\ next_seq(seqs["s1"]) = 3

\* task u was admitted on session s for number i at some time
WasAdmittedFor(u, s, i) ==
    /\ pc[u] \in {"yielded", "finished", "raised"}
    /\ sess[u] = s /\ seq[u] = i

\* C23: of the tasks that called acquire(i) with the same i on one session,
\* at most one holds an uncancelled admission for i at any time: a task is
\* admitted for i only when every task admitted for i before it has called
\* its cancel(), so never while an earlier one holds i uncancelled and never
\* after one completed normally without cancelling.
C23_DuplicateNumbers ==
    [][\A t \in Tasks :
        AdmittedNow(t) =>
            \A u \in Tasks \ {t} :
                WasAdmittedFor(u, sess'[t], seq'[t]) => ncancel[u] >= 1]_vars

\* C24: a backoff() call raises the backoff level by one and changes nothing
\* else; after it, every admission on any session happens with the count of
\* in-flight and logged tasks below the capacity of the new level.
C24_BackoffDoesNotRevoke ==
    [][ /\ nbackoff' # nbackoff =>
            /\ _backoff_n' = _backoff_n + 1
            /\ UNCHANGED <<_req_per_window, _window, _task_logs,
                           _running_tasks, seqs, pc, cancelled, now>>
        /\ \A t \in Tasks :
            (AdmittedNow(t) /\ nbackoff >= 1) =>
                Len(_task_logs') + Cardinality(_running_tasks)
                    < Maximum(_req_per_window - TwoTo(_backoff_n), 1) ]_vars

\* After a backoff the capacity is at or below the current count: the task
\* whose number is next, which the capacity of the level before would have
\* admitted, is suspended, and the token in flight is still in flight.
C24_Witness ==
    /\ nbackoff >= 1
    /\ _running_tasks # {}
    /\ ntasks_in_window >= req_per_window
    /\ ntasks_in_window < ReqPerWindowAt(_req_per_window, _backoff_n - 1)
    /\ \E t \in Tasks :
        pc[t] = "sleep" /\ seq[t] = next_seq(seqs[sess[t]])

-----------------------------------------------------------------------------
\* ---- schema/base.py: Field, DefBase and merge_values, for a class whose
\* attributes are a: Optional[int] and d: Optional[Dict[str, int]], both
\* declared with the same Field

\* (mutation of merge_scalars: 'keep' returns rhs)
merge_scalars_keep_rhs(lhs, rhs, merge) ==
    IF ~IsInstance(rhs, lhs) THEN Raise("ValueError")
    ELSE IF merge \in {"None", "same"}
         THEN IF ~PyEq(lhs, rhs) THEN Raise("ValueError") ELSE Return(lhs)
    ELSE IF merge = "override" THEN Return(rhs)
    ELSE IF merge = "keep" THEN Return(rhs)
    ELSE Raise("RuntimeError")

\* merge_values on a scalar lhs: the isinstance test, then the policy
merge_scalars(lhs, rhs, merge) ==
    IF ~IsInstance(rhs, lhs) THEN Raise("ValueError")
    ELSE IF merge \in {"None", "same"}
         THEN IF ~PyEq(lhs, rhs) THEN Raise("ValueError") ELSE Return(lhs)
    ELSE IF merge = "override" THEN Return(rhs)
    ELSE IF merge = "keep" THEN Return(lhs)
    ELSE Raise("RuntimeError")

\* merge_values on two dicts: the loop over rhs.keys() from key k on, writing
\* into lhs; when a value cannot be merged the exception leaves lhs as
\* written so far
RECURSIVE merge_dict(_, _, _, _)
merge_dict(lhs, rhs, merge, k) ==
    IF k > NKeys THEN Return(lhs)
    ELSE IF rhs[k] = Absent THEN merge_dict(lhs, rhs, merge, k + 1)
    ELSE IF lhs[k] = Absent
         THEN merge_dict([lhs EXCEPT ![k] = rhs[k]], rhs, merge, k + 1)
    ELSE LET m == merge_scalars(lhs[k], rhs[k], merge)
         IN  IF m.kind = "return"
             THEN merge_dict([lhs EXCEPT ![k] = m.val], rhs, merge, k + 1)
             ELSE [kind |-> m.kind, val |-> lhs]

coalesce(a, b) == IF a = PyNone THEN b ELSE a

\* the body of the loop of DefBase.merge for one attribute; `merged` is the
\* outcome of merge_values on the two values
merge_attr(cur_value, rhs_value, merged) ==
    IF cur_value = PyNone /\ rhs_value = PyNone THEN Return(cur_value)
    ELSE IF (cur_value = PyNone) # (rhs_value = PyNone)
         THEN IF policy.override_none
              THEN Return(coalesce(cur_value, rhs_value))
              ELSE Raise("ValueError")
    ELSE merged

\* (mutation of CopyOf: copy.copy in place of deepcopy, the dict is shared)
ShallowCopyOf(self, n) == self

\* deepcopy(self), its dict copied into the new dict n
CopyOf(self, n) ==
    [a |-> self.a, d |-> IF self.d = PyNone THEN PyNone ELSE DictRef(n)]

\* Field(merge=m, override_none=o) for the attributes of the class
DefineClass(m, o) ==
    /\ policy = NoPolicy
    /\ policy' = IF m \in MergePolicies
                 THEN [merge |-> m, override_none |-> o]
                 ELSE [merge |-> "ValueError", override_none |-> o]
    /\ mv' = NoCall
    /\ UNCHANGED <<objs, dicts, ret>>
    /\ UNCHANGED throttlerVars

\* DefBase.__init__ from a value holding a and d; a dict is a fresh object
Construct(a, d) ==
    /\ policy.merge \in MergePolicies
    /\ Len(objs) < MaxConstructed
    /\ ret = NoMerge
    /\ IF d = NoDict
       THEN /\ objs' = Append(objs, [a |-> a, d |-> PyNone])
            /\ UNCHANGED dicts
       ELSE /\ objs' = Append(objs, [a |-> a, d |-> DictRef(Len(dicts) + 1)])
            /\ dicts' = Append(dicts, d)
    /\ mv' = NoCall
    /\ UNCHANGED <<policy, ret>>
    /\ UNCHANGED throttlerVars

\* DefBase.merge: objs[x].merge(objs[y]).  The copy and what was written
\* into it stay allocated when merge raises.
Merge(x, y) ==
    /\ Len(objs) < MaxObjects
    /\ LET self == objs[x]
           rhs == objs[y]
           n == Len(dicts) + 1
           dicts1 == IF self.d = PyNone THEN dicts
                     ELSE Append(dicts, dicts[self.d.v])
           cur0 == CopyOf(self, n)
           ra == merge_attr(cur0.a, rhs.a,
                            merge_scalars(cur0.a, rhs.a, policy.merge))
           cur1 == [cur0 EXCEPT !.a = ra.val]
           bothD == cur1.d # PyNone /\ rhs.d # PyNone
           md == IF bothD
                 THEN merge_dict(dicts1[cur1.d.v], dicts1[rhs.d.v],
                                 policy.merge, 1)
                 ELSE Return(NoDict)
           dicts2 == IF bothD THEN [dicts1 EXCEPT ![cur1.d.v] = md.val]
                     ELSE dicts1
           rd == merge_attr(cur1.d, rhs.d,
                            IF md.kind = "return" THEN Return(cur1.d)
                            ELSE Raise(md.kind))
           cur2 == [cur1 EXCEPT !.d = rd.val]
           call == [n |-> ret.n + 1, kind |-> "return", id |-> Len(objs) + 1,
                    self |-> x, rhs |-> y]
       IN  IF ra.kind # "return"
           THEN /\ objs' = Append(objs, cur0)
                /\ dicts' = dicts1
                /\ ret' = [call EXCEPT !.kind = ra.kind, !.id = 0]
           ELSE IF rd.kind # "return"
           THEN /\ objs' = Append(objs, cur1)
                /\ dicts' = dicts2
                /\ ret' = [call EXCEPT !.kind = rd.kind, !.id = 0]
           ELSE /\ objs' = Append(objs, cur2)
                /\ dicts' = dicts2
                /\ ret' = call
    /\ mv' = NoCall
    /\ UNCHANGED policy
    /\ UNCHANGED throttlerVars

\* a direct call merge_values(lhs, rhs, attr, Field(merge=m)) on two scalars
MergeValuesCall(lhs, rhs, m) ==
    /\ policy = NoPolicy
    /\ mv' = [called |-> TRUE, lhs |-> lhs, rhs |-> rhs, merge |-> m,
              out |-> merge_scalars(lhs, rhs, m)]
    /\ UNCHANGED <<policy, objs, dicts, ret>>
    /\ UNCHANGED throttlerVars

DoDefineClass ==
    \E m \in MergePolicies \cup {"replace"}, o \in BOOLEAN : DefineClass(m, o)
DoConstruct ==
    \E a \in {PyNone, PyInt(0), PyInt(1)}, d \in {NoDict} \cup DictValues :
        Construct(a, d)
DoMerge == \E x, y \in DOMAIN objs : Merge(x, y)
DoMergeValuesCall ==
    \E lhs, rhs \in Scalars, m \in MergePolicies : MergeValuesCall(lhs, rhs, m)

NextSchema ==
    \/ DoDefineClass
    \/ DoConstruct
    \/ DoMerge
    \/ DoMergeValuesCall

InitSchema ==
    /\ _req_per_window = 1
    /\ _window = 1
    /\ InitRest

SpecSchema == InitSchema /\ [][NextSchema]_vars

\* what object i holds, its dict by content
DeepValue(os, ds, i) ==
    [a |-> os[i].a,
     d |-> IF os[i].d = PyNone THEN NoDict ELSE ds[os[i].d.v]]

\* C25: merge_values on two scalars with rhs an instance of lhs's type
\* returns lhs when the policy is None or 'same' and lhs == rhs, raises
\* ValueError when the policy is None or 'same' and lhs != rhs, returns rhs
\* under 'override' and lhs under 'keep'; DefBase.merge, when it returns,
\* returns an object that did not exist before, and it leaves every object
\* that existed, self and rhs among them, with the value it had.
C25_MergePolicy ==
    /\ []((mv.called /\ IsInstance(mv.rhs, mv.lhs)) =>
            /\ (mv.merge \in {"None", "same"} /\ PyEq(mv.lhs, mv.rhs)) =>
                    mv.out = Return(mv.lhs)
            /\ (mv.merge \in {"None", "same"} /\ ~PyEq(mv.lhs, mv.rhs)) =>
                    mv.out.kind = "ValueError"
            /\ mv.merge = "override" => mv.out = Return(mv.rhs)
            /\ mv.merge = "keep" => mv.out = Return(mv.lhs))
    /\ [](ret.kind = "return" =>
            LET self == objs[ret.self]
                rhs == objs[ret.rhs]
                cur == objs[ret.id]
            IN  (self.a # PyNone /\ rhs.a # PyNone) =>
                    /\ policy.merge \in {"None", "same"} =>
                            (cur.a = self.a /\ self.a = rhs.a)
                    /\ policy.merge = "override" => cur.a = rhs.a
                    /\ policy.merge = "keep" => cur.a = self.a)
    /\ [][ret'.n # ret.n =>
            /\ \A i \in DOMAIN objs :
                    DeepValue(objs', dicts', i) = DeepValue(objs, dicts, i)
            /\ ret'.kind = "return" =>
                    (ret'.id \notin DOMAIN objs /\ ret'.id \in DOMAIN objs')]_vars

\* Under 'override', an object with a = 0 and a dict was merged with one
\* with a = 1 and a dict of other content: the result holds a = 1 and a dict
\* that differs from self's.
C25_Witness ==
    /\ ret.kind = "return"
    /\ policy.merge = "override"
    /\ objs[ret.self].a = PyInt(0)
    /\ objs[ret.rhs].a = PyInt(1)
    /\ objs[ret.id].a = PyInt(1)
    /\ objs[ret.self].d # PyNone /\ objs[ret.rhs].d # PyNone
    /\ DeepValue(objs, dicts, ret.id).d # DeepValue(objs, dicts, ret.self).d
    /\ DeepValue(objs, dicts, ret.id).d = DeepValue(objs, dicts, ret.rhs).d

====
